---------------------------- MODULE Spec2Model ----------------------------
(* A model of the DNS mesh controller core: the fingerprint functions       *)
(* (hash.go), the bidirectional PolicyIndex (hash.go), the DnsPolicy        *)
(* reconciler (dnspolicy_controller.go, here src/unnamed/part_001) and the  *)
(* external object store it talks to.                                       *)
EXTENDS Integers, Sequences, FiniteSets, TLC

VARIABLES
    store,          \* the external object store: identity -> DnsPolicy object
    hashToPolicy,   \* PolicyIndex.hashToPolicy: selector hash -> snapshot
    nameToHash,     \* PolicyIndex.nameToHash: identity -> selector hash
    rec,            \* per identity: the running Reconcile invocation's frame
    known,          \* the identities the watch has reported to the dispatcher
    last,           \* the reconciler's last output: event emitted, result returned
    writes,         \* number of store writes made by the environment so far
    mu,             \* PolicyIndex.mu: the writer holding it and the readers
    th,             \* per client thread: the index call in progress
    committed,      \* the two maps as of the last release of the write lock
    hist,           \* the last completed index calls of the client threads
    hashCall,       \* a call of a function on its own: arguments and results
    mem             \* the objects behind the pointers: the index's and the callers'

vars == <<store, known, hashToPolicy, nameToHash, rec, last, writes,
          mu, th, committed, hist, hashCall, mem>>

-----------------------------------------------------------------------------
(* Bounds of the model.                                                      *)

\* The highest metadata.generation an object reaches (spec edits stop there).
MaxGen == 2
\* How many identities one run creates objects for.
MaxPolicies == 2
\* How many writes (create, edit, delete) the environment makes in one run.
MaxWrites == 3

-----------------------------------------------------------------------------
(* Values.                                                                   *)

\* Policy identities (namespace, name): two share a name across namespaces,
\* two share a namespace.
Ids == { <<"ns1", "a">>, <<"ns2", "a">>, <<"ns1", "b">> }

\* No identity: before the first return, the first event.
NoId == << "", "" >>

Namespace(id) == id[1]
Name(id) == id[2]

\* Every string that is sorted somewhere, in lexicographic order.
StrOrder == << "a.com", "app", "b.com", "be", "fe", "tier" >>

StrRank(s) == CHOOSE i \in 1..Len(StrOrder) : StrOrder[i] = s

StrLess(a, b) == StrRank(a) < StrRank(b)

\* A map[string]string is a function from the keys it holds.
EmptyMap == [k \in {} |-> "x"]
AppFe == [k \in {"app"} |-> "fe"]
AppBe == [k \in {"app"} |-> "be"]

\* The Go string "" as a hash value; the other hash values are digests.
EmptyString == << >>

\* sha256 + hex, taken as collision free: the digest stands for its input.
Sha256Hex(data) == << "sha256", data >>

\* sort.Strings on a set of strings: the ascending sequence.
RECURSIVE SortSet(_)
SortSet(S) ==
    IF S = {} THEN << >>
    ELSE LET m == CHOOSE x \in S : \A y \in S : x = y \/ StrLess(x, y)
         IN  << m >> \o SortSet(S \ {m})

\* sort.Strings on a slice: insertion of each element into the sorted prefix.
RECURSIVE InsertSorted(_, _)
InsertSorted(s, x) ==
    IF s = << >> THEN << x >>
    ELSE IF StrLess(x, Head(s)) THEN << x >> \o s
    ELSE << Head(s) >> \o InsertSorted(Tail(s), x)

\* A sort that leaves the slice in the order it came in.
SortStringsSkipped(s) == s

RECURSIVE SortStrings(_)
SortStrings(s) ==
    IF s = << >> THEN << >>
    ELSE InsertSorted(SortStrings(Tail(s)), Head(s))

\* json.Marshal of a map[string]string: the pairs in key order.
MarshalMap(m) ==
    LET keys == SortSet(DOMAIN m)
    IN  [i \in 1..Len(keys) |-> << keys[i], m[keys[i]] >>]

\* A selector hash without the early return for the empty map.
ComputeSelectorHashOfAnyMap(selector) == Sha256Hex(MarshalMap(selector))

\* ComputeSelectorHash: "" for the empty map, else the digest of the
\* key-sorted JSON.
ComputeSelectorHash(selector) ==
    IF DOMAIN selector = {} THEN EmptyString
    ELSE Sha256Hex(MarshalMap(selector))

\* ComputeSpecHash: the digest of {TargetSelector, AllowList, BlockList} with
\* the lists sorted; Subject and DryRun are not part of the normalized record,
\* and the schema has no allow list (it marshals as null).
ComputeSpecHash(spec) ==
    Sha256Hex([TargetSelector |-> MarshalMap(spec.targetSelector),
               AllowList |-> << >>,
               BlockList |-> SortStrings(spec.blockList)])

\* What ComputeSpecHash leaves in the spec it was given: sort.Strings works
\* on the caller's slice, so the block list comes back sorted.
SpecAfterComputeSpecHash(spec) ==
    [spec EXCEPT !.blockList = SortStrings(spec.blockList)]

\* The policy specs the operator writes.
Specs ==
    { [targetSelector |-> AppFe, subject |-> EmptyMap,
       blockList |-> << "b.com", "a.com" >>, dryRun |-> FALSE],
      [targetSelector |-> EmptyMap, subject |-> AppBe,
       blockList |-> << "a.com" >>, dryRun |-> TRUE],
      [targetSelector |-> EmptyMap, subject |-> EmptyMap,
       blockList |-> << >>, dryRun |-> FALSE] }

EmptyStatus ==
    [selectorHash |-> EmptyString, specHash |-> EmptyString,
     observedGeneration |-> 0, conditions |-> << >>]

\* A DnsPolicy object as the store creates it.
NewPolicy(id, spec) ==
    [namespace |-> Namespace(id), name |-> Name(id), generation |-> 1,
     deleting |-> FALSE, finalizer |-> FALSE, spec |-> spec,
     status |-> EmptyStatus]

Identity(policy) == << policy.namespace, policy.name >>

\* Map helpers.
Put(f, k, v) == [x \in DOMAIN f \cup {k} |-> IF x = k THEN v ELSE f[x]]
Remove(f, k) == [x \in DOMAIN f \ {k} |-> f[x]]


-----------------------------------------------------------------------------
(* PolicyIndex: the operations on the two maps, each run under pi.mu.        *)

Nil == << >>

\* An Upsert that forgets the entry of the old hash.
UpsertKeepsOld(f, r, policy, selectorHash) == f

\* Upsert, the check of the old hash: the forward entry of the identity's
\* old hash goes when the identity is indexed under a different hash.
UpsertRemoveOld(f, r, policy, selectorHash) ==
    LET namespacedName == Identity(policy)
    IN  IF namespacedName \in DOMAIN r /\ r[namespacedName] # selectorHash
        THEN Remove(f, r[namespacedName])
        ELSE f

\* An Upsert that evicts the snapshot it finds under the hash instead of
\* replacing it.
UpsertForwardEvicts(f, policy, selectorHash) ==
    IF selectorHash \in DOMAIN f THEN Remove(f, selectorHash)
    ELSE Put(f, selectorHash, policy)

\* Upsert, the two stores: the copy in the forward map, the hash in the
\* reverse map.
UpsertForward(f, policy, selectorHash) == Put(f, selectorHash, policy)

\* An Upsert that does not record the hash of the identity.
UpsertReverseSkipped(r, policy, selectorHash) == r

UpsertReverse(r, policy, selectorHash) == Put(r, Identity(policy), selectorHash)

\* PolicyIndex.Upsert as a whole, which is what a caller sees of it.
Upsert(f, r, policy, selectorHash) ==
    [hashToPolicy |->
         UpsertForward(UpsertRemoveOld(f, r, policy, selectorHash),
                       policy, selectorHash),
     nameToHash |-> UpsertReverse(r, policy, selectorHash)]

\* A Delete that removes the reverse entry only.
DeleteForwardSkipped(f, r, namespacedName) == f

\* Delete, its two statements, run for an identity the reverse map knows.
DeleteForward(f, r, namespacedName) == Remove(f, r[namespacedName])

\* A Delete that leaves the reverse entry behind.
DeleteReverseSkipped(r, namespacedName) == r

DeleteReverse(r, namespacedName) == Remove(r, namespacedName)

\* PolicyIndex.Delete as a whole: both entries of a known identity go,
\* an unknown identity changes nothing.
Delete(f, r, namespacedName) ==
    IF namespacedName \in DOMAIN r
    THEN [hashToPolicy |-> DeleteForward(f, r, namespacedName),
          nameToHash |-> DeleteReverse(r, namespacedName)]
    ELSE [hashToPolicy |-> f, nameToHash |-> r]

\* PolicyIndex.Get: a copy of the snapshot, or nil.
Get(f, selectorHash) ==
    IF selectorHash \in DOMAIN f THEN << f[selectorHash] >> ELSE Nil

\* PolicyIndex.GetAll: copies of all snapshots (as a set: map order is free).
GetAll(f) == { f[h] : h \in DOMAIN f }

\* PolicyIndex.Size: the number of forward entries.
Size(f) == Cardinality(DOMAIN f)

-----------------------------------------------------------------------------
(* The reconciler.                                                           *)

\* updateCondition: replace the entry of the type when its status differs,
\* leave it when the status is the same, append when there is none.
updateCondition(policy, conditionType, status, reason) ==
    LET conds == policy.status.conditions
        condition == [type |-> conditionType, status |-> status,
                      reason |-> reason,
                      observedGeneration |-> policy.generation]
        hits == { i \in 1..Len(conds) : conds[i].type = conditionType }
        first == CHOOSE i \in hits : \A j \in hits : i <= j
    IN  IF hits = {} THEN Append(conds, condition)
        ELSE IF conds[first].status # status
             THEN [conds EXCEPT ![first] = condition]
             ELSE conds

IdleFrame ==
    [pc |-> "idle", fetched |-> Nil, policy |-> Nil,
     selectorHash |-> EmptyString, needsStatusUpdate |-> FALSE]

Frame(pc, fetched, policy) ==
    [pc |-> pc, fetched |-> fetched, policy |-> policy,
     selectorHash |-> EmptyString, needsStatusUpdate |-> FALSE]

Event(type, reason) == [type |-> type, reason |-> reason]

NoEvent == Event("none", "none")

\* What one step of Reconcile(id) lets the outside see: the event it hands
\* to the Recorder and, when it ends the invocation, the result.
Output(id, event, result) == [id |-> id, event |-> event, result |-> result]

\* The end of an invocation: the frame is dropped, the result returned.
Return(id, event, result) ==
    /\ rec' = [rec EXCEPT ![id] = IdleFrame]
    /\ last' = Output(id, event, result)

\* A step that goes on: the event, no result yet.
Emit(id, event) == last' = Output(id, event, "running")

ClientUnchanged == UNCHANGED <<mu, th, committed, hist, hashCall, mem>>

\* A choice of the selection key that never falls back to the subject.
HashObjectIsTargetSelector(spec) == spec.targetSelector

\* The selection key that is hashed: the target selector unless it is empty.
HashObject(spec) ==
    IF DOMAIN spec.targetSelector = {} THEN spec.subject
    ELSE spec.targetSelector

\* The first validation: both selection-key forms empty.
InvalidSpec(spec) ==
    DOMAIN spec.targetSelector = {} /\ DOMAIN spec.subject = {}

\* The conflict check on what Index.Get returned.
IsDuplicate(existing_index, policy) ==
    /\ existing_index # Nil
    /\ existing_index[1].name # ""
    /\ existing_index[1].name # policy.name

\* r.Get fails with NotFound: go on to Index.Delete.
FetchNotFound(id) ==
    /\ rec[id].pc = "idle"
    /\ id \notin DOMAIN store
    /\ rec' = [rec EXCEPT ![id] = Frame("notfound_delete", Nil, Nil)]
    /\ UNCHANGED <<known, store, hashToPolicy, nameToHash, last, writes>>
    /\ ClientUnchanged

\* r.Get fails with another error: the error is returned.
FetchError(id) ==
    /\ rec[id].pc = "idle"
    /\ Return(id, NoEvent, "GetError")
    /\ UNCHANGED <<known, store, hashToPolicy, nameToHash, writes>>
    /\ ClientUnchanged

\* Not found: Index.Delete, success.
NotFoundDelete(id) ==
    /\ rec[id].pc = "notfound_delete"
    /\ LET d == Delete(hashToPolicy, nameToHash, id)
       IN  /\ hashToPolicy' = d.hashToPolicy
           /\ nameToHash' = d.nameToHash
    /\ Return(id, NoEvent, "ok")
    /\ UNCHANGED <<known, store, writes>>
    /\ ClientUnchanged

\* Marked for deletion without the finalizer: nothing to do.
FetchDeletingNoFinalizer(id) ==
    /\ rec[id].pc = "idle"
    /\ id \in DOMAIN store
    /\ store[id].deleting /\ ~store[id].finalizer
    /\ Return(id, NoEvent, "ok")
    /\ UNCHANGED <<known, store, hashToPolicy, nameToHash, writes>>
    /\ ClientUnchanged

\* Marked for deletion with the finalizer: go on to Index.Delete.
FetchDeleting(id) ==
    /\ rec[id].pc = "idle"
    /\ id \in DOMAIN store
    /\ store[id].deleting /\ store[id].finalizer
    /\ rec' = [rec EXCEPT ![id] = Frame("deleting_delete", store[id], store[id])]
    /\ UNCHANGED <<known, store, hashToPolicy, nameToHash, last, writes>>
    /\ ClientUnchanged

\* A deletion path that clears the finalizer and leaves the index as it is.
DeletionCleanupSkipped(f, r, namespacedName) ==
    [hashToPolicy |-> f, nameToHash |-> r]

\* The index cleanup of the deletion path: r.Index.Delete(req.NamespacedName).
DeletionCleanup(f, r, namespacedName) == Delete(f, r, namespacedName)

\* A deletion path without controllerutil.RemoveFinalizer: the copy that is
\* persisted still carries the finalizer.
DeletingDeleteKeepsFinalizer(id) ==
    /\ rec[id].pc = "deleting_delete"
    /\ LET d == DeletionCleanup(hashToPolicy, nameToHash, id)
       IN  /\ hashToPolicy' = d.hashToPolicy
           /\ nameToHash' = d.nameToHash
    /\ Emit(id, Event("Normal", "Deleted"))
    /\ rec' = [rec EXCEPT ![id].pc = "remove_finalizer"]
    /\ UNCHANGED <<known, store, writes>>
    /\ ClientUnchanged

\* Deletion: Index.Delete, the Deleted event, RemoveFinalizer on the copy.
DeletingDelete(id) ==
    /\ rec[id].pc = "deleting_delete"
    /\ LET d == DeletionCleanup(hashToPolicy, nameToHash, id)
       IN  /\ hashToPolicy' = d.hashToPolicy
           /\ nameToHash' = d.nameToHash
    /\ Emit(id, Event("Normal", "Deleted"))
    /\ rec' = [rec EXCEPT ![id].pc = "remove_finalizer",
                          ![id].policy.finalizer = FALSE]
    /\ UNCHANGED <<known, store, writes>>
    /\ ClientUnchanged

\* r.Update succeeds only on the object version that was fetched.
StoreAccepts(id) ==
    /\ id \in DOMAIN store
    /\ store[id] = rec[id].fetched

\* Deletion: r.Update persists the object without the finalizer.
RemoveFinalizerOk(id) ==
    /\ rec[id].pc = "remove_finalizer"
    /\ StoreAccepts(id)
    /\ store' = [store EXCEPT ![id].finalizer = rec[id].policy.finalizer]
    /\ Return(id, NoEvent, "ok")
    /\ UNCHANGED <<known, hashToPolicy, nameToHash, writes>>
    /\ ClientUnchanged

\* A failed r.Update after which the store has lost the finalizer all the same.
RemoveFinalizerFailClears(id) ==
    /\ rec[id].pc = "remove_finalizer"
    /\ id \in DOMAIN store
    /\ store' = [store EXCEPT ![id].finalizer = FALSE]
    /\ Return(id, Event("Warning", "FinalizerRemovalFailed"), "UpdateError")
    /\ UNCHANGED <<known, hashToPolicy, nameToHash, writes>>
    /\ ClientUnchanged

\* Deletion: r.Update fails; the error is returned.
RemoveFinalizerFail(id) ==
    /\ rec[id].pc = "remove_finalizer"
    /\ Return(id, Event("Warning", "FinalizerRemovalFailed"), "UpdateError")
    /\ UNCHANGED <<known, store, hashToPolicy, nameToHash, writes>>
    /\ ClientUnchanged

\* An invocation that adds the finalizer to its copy and goes on to index the
\* policy without persisting it first.
FetchNeedsFinalizerGoesOn(id) ==
    /\ rec[id].pc = "idle"
    /\ id \in DOMAIN store
    /\ ~store[id].deleting /\ ~store[id].finalizer
    /\ ~InvalidSpec(store[id].spec)
    /\ rec' = [rec EXCEPT ![id] =
                 [Frame("index_get", store[id],
                        [store[id] EXCEPT !.finalizer = TRUE]) EXCEPT
                    !.selectorHash =
                        ComputeSelectorHash(HashObject(store[id].spec))]]
    /\ UNCHANGED <<known, store, hashToPolicy, nameToHash, last, writes>>
    /\ ClientUnchanged

\* No finalizer yet: AddFinalizer on the copy, go on to r.Update.
FetchNeedsFinalizer(id) ==
    /\ rec[id].pc = "idle"
    /\ id \in DOMAIN store
    /\ ~store[id].deleting /\ ~store[id].finalizer
    /\ rec' = [rec EXCEPT ![id] =
                 Frame("add_finalizer", store[id],
                       [store[id] EXCEPT !.finalizer = TRUE])]
    /\ UNCHANGED <<known, store, hashToPolicy, nameToHash, last, writes>>
    /\ ClientUnchanged

\* r.Update persists the finalizer; the invocation stops.
AddFinalizerOk(id) ==
    /\ rec[id].pc = "add_finalizer"
    /\ StoreAccepts(id)
    /\ store' = [store EXCEPT ![id].finalizer = rec[id].policy.finalizer]
    /\ Return(id, Event("Normal", "FinalizerAdded"), "ok")
    /\ UNCHANGED <<known, hashToPolicy, nameToHash, writes>>
    /\ ClientUnchanged

\* r.Update fails; the error is returned.
AddFinalizerFail(id) ==
    /\ rec[id].pc = "add_finalizer"
    /\ Return(id, Event("Warning", "FinalizerAddFailed"), "UpdateError")
    /\ UNCHANGED <<known, store, hashToPolicy, nameToHash, writes>>
    /\ ClientUnchanged

\* Validation fails: the event, updateCondition on the copy, the error.
\* The copy, with the condition it carries, ends with the invocation.
FetchInvalid(id) ==
    /\ rec[id].pc = "idle"
    /\ id \in DOMAIN store
    /\ ~store[id].deleting /\ store[id].finalizer
    /\ InvalidSpec(store[id].spec)
    /\ Return(id, Event("Warning", "InvalidSpec"), "InvalidSpec")
    /\ UNCHANGED <<known, store, hashToPolicy, nameToHash, writes>>
    /\ ClientUnchanged

\* Validation passes: ComputeSelectorHash, go on to Index.Get.
FetchValid(id) ==
    /\ rec[id].pc = "idle"
    /\ id \in DOMAIN store
    /\ ~store[id].deleting /\ store[id].finalizer
    /\ ~InvalidSpec(store[id].spec)
    /\ rec' = [rec EXCEPT ![id] =
                 [Frame("index_get", store[id], store[id]) EXCEPT
                    !.selectorHash =
                        ComputeSelectorHash(HashObject(store[id].spec))]]
    /\ UNCHANGED <<known, store, hashToPolicy, nameToHash, last, writes>>
    /\ ClientUnchanged

\* A conflict path that takes the losing policy out of the index before it
\* returns the duplicate-hash error.
IndexGetConflictUnindexes(id) ==
    /\ rec[id].pc = "index_get"
    /\ IsDuplicate(Get(hashToPolicy, rec[id].selectorHash), rec[id].policy)
    /\ LET d == Delete(hashToPolicy, nameToHash, id)
       IN  /\ hashToPolicy' = d.hashToPolicy
           /\ nameToHash' = d.nameToHash
    /\ Return(id, Event("Warning", "DuplicatHash"), "DuplicateHash")
    /\ UNCHANGED <<known, store, writes>>
    /\ ClientUnchanged

\* Index.Get finds another policy's snapshot: the event, updateCondition on
\* the copy, the duplicate-hash error.
IndexGetConflict(id) ==
    /\ rec[id].pc = "index_get"
    /\ IsDuplicate(Get(hashToPolicy, rec[id].selectorHash), rec[id].policy)
    /\ Return(id, Event("Warning", "DuplicatHash"), "DuplicateHash")
    /\ UNCHANGED <<known, store, hashToPolicy, nameToHash, writes>>
    /\ ClientUnchanged

\* A commit that leaves the selector hash of the status as it was fetched.
NewStatusKeepsSelectorHash(policy, selectorHash, specHash) ==
    [policy.status EXCEPT !.specHash = specHash,
                          !.observedGeneration = policy.generation]

\* The status the copy carries after the three comparisons.
NewStatus(policy, selectorHash, specHash) ==
    [policy.status EXCEPT !.selectorHash = selectorHash,
                          !.specHash = specHash,
                          !.observedGeneration = policy.generation]

\* A commit that writes the status whether or not anything changed.
NeedsStatusUpdateAlways(policy, selectorHash, specHash) == TRUE

\* needsStatusUpdate: one of the three recorded values differs.
NeedsStatusUpdate(policy, selectorHash, specHash) ==
    \/ policy.status.selectorHash # selectorHash
    \/ policy.status.specHash # specHash
    \/ policy.status.observedGeneration # policy.generation

\* Index.Get finds nothing in the way: ComputeSpecHash, the status fields of
\* the copy, go on to Index.Upsert.
IndexGetClear(id) ==
    /\ rec[id].pc = "index_get"
    /\ ~IsDuplicate(Get(hashToPolicy, rec[id].selectorHash), rec[id].policy)
    /\ LET policy == rec[id].policy
           selectorHash == rec[id].selectorHash
           specHash == ComputeSpecHash(policy.spec)
       IN  rec' = [rec EXCEPT
                     ![id].pc = "index_upsert",
                     ![id].needsStatusUpdate =
                         NeedsStatusUpdate(policy, selectorHash, specHash),
                     ![id].policy =
                         [policy EXCEPT
                            !.spec = SpecAfterComputeSpecHash(policy.spec),
                            !.status = NewStatus(policy, selectorHash, specHash)]]
    /\ UNCHANGED <<known, store, hashToPolicy, nameToHash, last, writes>>
    /\ ClientUnchanged

\* Index.Upsert of the copy, the PolicyIndexed event; then either the Ready
\* condition on the copy and on to Status().Update, or success.
IndexUpsert(id) ==
    /\ rec[id].pc = "index_upsert"
    /\ LET u == Upsert(hashToPolicy, nameToHash, rec[id].policy,
                       rec[id].selectorHash)
       IN  /\ hashToPolicy' = u.hashToPolicy
           /\ nameToHash' = u.nameToHash
    /\ IF rec[id].needsStatusUpdate
       THEN /\ rec' = [rec EXCEPT
                         ![id].pc = "status_update",
                         ![id].policy.status.conditions =
                             updateCondition(rec[id].policy, "Ready", "True",
                                             "Reconciled")]
            /\ Emit(id, Event("Normal", "PolicyIndexed"))
       ELSE Return(id, Event("Normal", "PolicyIndexed"), "ok")
    /\ UNCHANGED <<known, store, writes>>
    /\ ClientUnchanged

\* Status().Update persists the status of the copy.
StatusUpdateOk(id) ==
    /\ rec[id].pc = "status_update"
    /\ StoreAccepts(id)
    /\ store' = [store EXCEPT ![id].status = rec[id].policy.status]
    /\ Return(id, Event("Normal", "Reconciled"), "ok")
    /\ UNCHANGED <<known, hashToPolicy, nameToHash, writes>>
    /\ ClientUnchanged

\* Status().Update fails; the error is returned.
StatusUpdateFail(id) ==
    /\ rec[id].pc = "status_update"
    /\ Return(id, Event("Warning", "StatusUpdateFailed"), "StatusUpdateError")
    /\ UNCHANGED <<known, store, hashToPolicy, nameToHash, writes>>
    /\ ClientUnchanged

-----------------------------------------------------------------------------
(* The external object store and its users.                                  *)

\* An operator creates a policy object.
Create(id, spec) ==
    /\ writes < MaxWrites
    /\ id \notin DOMAIN store
    /\ Cardinality(known \cup {id}) <= MaxPolicies
    /\ store' = Put(store, id, NewPolicy(id, spec))
    /\ known' = known \cup {id}
    /\ writes' = writes + 1
    /\ UNCHANGED <<hashToPolicy, nameToHash, rec, last>>
    /\ ClientUnchanged

\* An operator edits the spec: the generation goes up.
EditSpec(id, spec) ==
    /\ writes < MaxWrites
    /\ id \in DOMAIN store
    /\ ~store[id].deleting
    /\ store[id].spec # spec
    /\ store[id].generation < MaxGen
    /\ store' = [store EXCEPT ![id].spec = spec,
                              ![id].generation = store[id].generation + 1]
    /\ writes' = writes + 1
    /\ UNCHANGED <<known, hashToPolicy, nameToHash, rec, last>>
    /\ ClientUnchanged

\* An operator deletes the object: with the finalizer it is only marked,
\* without it it is erased.
MarkDelete(id) ==
    /\ writes < MaxWrites
    /\ id \in DOMAIN store
    /\ ~store[id].deleting
    /\ store' = IF store[id].finalizer
                THEN [store EXCEPT ![id].deleting = TRUE]
                ELSE Remove(store, id)
    /\ writes' = writes + 1
    /\ UNCHANGED <<known, hashToPolicy, nameToHash, rec, last>>
    /\ ClientUnchanged

\* The store erases an object marked for deletion that has no finalizer left.
Erase(id) ==
    /\ id \in DOMAIN store
    /\ store[id].deleting /\ ~store[id].finalizer
    /\ store' = Remove(store, id)
    /\ UNCHANGED <<known, hashToPolicy, nameToHash, rec, last, writes>>
    /\ ClientUnchanged

-----------------------------------------------------------------------------
(* The controller: reconcilers of distinct identities interleave, one        *)
(* identity has one invocation at a time.                                    *)

Reconcile ==
    \/ \E id \in known : FetchNotFound(id)
    \/ \E id \in known : FetchError(id)
    \/ \E id \in known : NotFoundDelete(id)
    \/ \E id \in known : FetchDeletingNoFinalizer(id)
    \/ \E id \in known : FetchDeleting(id)
    \/ \E id \in known : DeletingDelete(id)
    \/ \E id \in known : RemoveFinalizerOk(id)
    \/ \E id \in known : RemoveFinalizerFail(id)
    \/ \E id \in known : FetchNeedsFinalizer(id)
    \/ \E id \in known : AddFinalizerOk(id)
    \/ \E id \in known : AddFinalizerFail(id)
    \/ \E id \in known : FetchInvalid(id)
    \/ \E id \in known : FetchValid(id)
    \/ \E id \in known : IndexGetConflict(id)
    \/ \E id \in known : IndexGetClear(id)
    \/ \E id \in known : IndexUpsert(id)
    \/ \E id \in known : StatusUpdateOk(id)
    \/ \E id \in known : StatusUpdateFail(id)

Environment ==
    \/ \E id \in Ids, spec \in Specs : Create(id, spec)
    \/ \E id \in Ids, spec \in Specs : EditSpec(id, spec)
    \/ \E id \in Ids : MarkDelete(id)
    \/ \E id \in Ids : Erase(id)



-----------------------------------------------------------------------------
(* Clients of the index: threads that call its methods directly, statement   *)
(* by statement, under pi.mu.                                                *)

Threads == { "t1", "t2" }

\* The fingerprints and the policies the threads call the index with.
Hashes == { ComputeSelectorHash(AppFe), ComputeSelectorHash(AppBe) }

IndexPolicies ==
    { NewPolicy(id, [targetSelector |-> AppFe, subject |-> EmptyMap,
                     blockList |-> << "a.com" >>, dryRun |-> FALSE]) :
        id \in Ids }
    \cup
    { NewPolicy(<<"ns1", "a">>,
                [targetSelector |-> AppBe, subject |-> EmptyMap,
                 blockList |-> << >>, dryRun |-> TRUE]) }

EmptyIndex == [h \in {} |-> Nil]
EmptyReverse == [id \in {} |-> EmptyString]

IdleThread ==
    [pc |-> "idle", op |-> "none", policy |-> Nil, name |-> NoId,
     hash |-> EmptyString, result |-> Nil]

Call(pc, op, policy, name, hash, result) ==
    [pc |-> pc, op |-> op, policy |-> policy, name |-> name, hash |-> hash,
     result |-> result]

\* The last write call that released the lock, and Size() as it left it.
NoCall == [op |-> "none", policy |-> Nil, name |-> NoId,
           hash |-> EmptyString, size |-> 0]

\* pi.mu.Lock() returns when no writer and no reader holds the lock.
LockFree(m) == m.writer = "none" /\ m.readers = {}

\* A read that does not wait for the writer.
RLockIgnoresWriter(m) == TRUE

\* pi.mu.RLock() returns when no writer holds the lock.
RLockFree(m) == m.writer = "none"

ReconcilerUnchanged == UNCHANGED <<store, known, rec, last, writes, hashCall, mem>>

\* Upsert: pi.mu.Lock().
UpsertLock(t, policy, selectorHash) ==
    /\ th[t].pc = "idle"
    /\ LockFree(mu)
    /\ mu' = [mu EXCEPT !.writer = t]
    /\ th' = [th EXCEPT ![t] = Call("upsert_old", "Upsert", << policy >>,
                                    Identity(policy), selectorHash, Nil)]
    /\ UNCHANGED <<hashToPolicy, nameToHash, committed, hist>>
    /\ ReconcilerUnchanged

\* Upsert: the old forward entry is removed when the hash changed.
UpsertOld(t) ==
    /\ th[t].pc = "upsert_old"
    /\ hashToPolicy' = UpsertRemoveOld(hashToPolicy, nameToHash,
                                       th[t].policy[1], th[t].hash)
    /\ th' = [th EXCEPT ![t].pc = "upsert_forward"]
    /\ UNCHANGED <<nameToHash, mu, committed, hist>>
    /\ ReconcilerUnchanged

\* Upsert: hashToPolicy[selectorHash] = policy.DeepCopy().
UpsertPut(t) ==
    /\ th[t].pc = "upsert_forward"
    /\ hashToPolicy' = UpsertForward(hashToPolicy, th[t].policy[1], th[t].hash)
    /\ th' = [th EXCEPT ![t].pc = "upsert_reverse"]
    /\ UNCHANGED <<nameToHash, mu, committed, hist>>
    /\ ReconcilerUnchanged

\* Upsert: nameToHash[namespacedName] = selectorHash.
UpsertName(t) ==
    /\ th[t].pc = "upsert_reverse"
    /\ nameToHash' = UpsertReverse(nameToHash, th[t].policy[1], th[t].hash)
    /\ th' = [th EXCEPT ![t].pc = "unlock"]
    /\ UNCHANGED <<hashToPolicy, mu, committed, hist>>
    /\ ReconcilerUnchanged

\* Delete: pi.mu.Lock().
DeleteLock(t, namespacedName) ==
    /\ th[t].pc = "idle"
    /\ LockFree(mu)
    /\ mu' = [mu EXCEPT !.writer = t]
    /\ th' = [th EXCEPT ![t] = Call("delete_lookup", "Delete", Nil,
                                    namespacedName, EmptyString, Nil)]
    /\ UNCHANGED <<hashToPolicy, nameToHash, committed, hist>>
    /\ ReconcilerUnchanged

\* Delete: the identity is unknown, nothing is removed.
DeleteUnknown(t) ==
    /\ th[t].pc = "delete_lookup"
    /\ th[t].name \notin DOMAIN nameToHash
    /\ th' = [th EXCEPT ![t].pc = "unlock"]
    /\ UNCHANGED <<hashToPolicy, nameToHash, mu, committed, hist>>
    /\ ReconcilerUnchanged

\* Delete: delete(pi.hashToPolicy, hash).
DeleteHash(t) ==
    /\ th[t].pc = "delete_lookup"
    /\ th[t].name \in DOMAIN nameToHash
    /\ hashToPolicy' = DeleteForward(hashToPolicy, nameToHash, th[t].name)
    /\ th' = [th EXCEPT ![t].pc = "delete_reverse"]
    /\ UNCHANGED <<nameToHash, mu, committed, hist>>
    /\ ReconcilerUnchanged

\* Delete: delete(pi.nameToHash, namespacedName).
DeleteName(t) ==
    /\ th[t].pc = "delete_reverse"
    /\ nameToHash' = DeleteReverse(nameToHash, th[t].name)
    /\ th' = [th EXCEPT ![t].pc = "unlock"]
    /\ UNCHANGED <<hashToPolicy, mu, committed, hist>>
    /\ ReconcilerUnchanged

\* A release of the write lock that does not happen.
UnlockSkipped(t) ==
    /\ th[t].pc = "unlock"
    /\ committed' = [hashToPolicy |-> hashToPolicy, nameToHash |-> nameToHash]
    /\ hist' = [op |-> th[t].op, policy |-> th[t].policy, name |-> th[t].name,
                hash |-> th[t].hash, size |-> Size(hashToPolicy)]
    /\ th' = [th EXCEPT ![t] = IdleThread]
    /\ UNCHANGED <<hashToPolicy, nameToHash, mu>>
    /\ ReconcilerUnchanged

\* The deferred pi.mu.Unlock() of Upsert and Delete.
Unlock(t) ==
    /\ th[t].pc = "unlock"
    /\ mu' = [mu EXCEPT !.writer = "none"]
    /\ committed' = [hashToPolicy |-> hashToPolicy, nameToHash |-> nameToHash]
    /\ hist' = [op |-> th[t].op, policy |-> th[t].policy, name |-> th[t].name,
                hash |-> th[t].hash, size |-> Size(hashToPolicy)]
    /\ th' = [th EXCEPT ![t] = IdleThread]
    /\ UNCHANGED <<hashToPolicy, nameToHash>>
    /\ ReconcilerUnchanged

\* Get: pi.mu.RLock() and the lookup.
GetCall(t, selectorHash) ==
    /\ th[t].pc = "idle"
    /\ RLockFree(mu)
    /\ mu' = [mu EXCEPT !.readers = mu.readers \cup {t}]
    /\ th' = [th EXCEPT ![t] = Call("runlock", "Get", Nil, NoId, selectorHash,
                                    Get(hashToPolicy, selectorHash))]
    /\ UNCHANGED <<hashToPolicy, nameToHash, committed, hist>>
    /\ ReconcilerUnchanged

\* GetAll: pi.mu.RLock() and the copy of every entry.
GetAllCall(t) ==
    /\ th[t].pc = "idle"
    /\ RLockFree(mu)
    /\ mu' = [mu EXCEPT !.readers = mu.readers \cup {t}]
    /\ th' = [th EXCEPT ![t] = Call("runlock", "GetAll", Nil, NoId,
                                    EmptyString, GetAll(hashToPolicy))]
    /\ UNCHANGED <<hashToPolicy, nameToHash, committed, hist>>
    /\ ReconcilerUnchanged

\* Size: pi.mu.RLock() and len(pi.hashToPolicy).
SizeCall(t) ==
    /\ th[t].pc = "idle"
    /\ RLockFree(mu)
    /\ mu' = [mu EXCEPT !.readers = mu.readers \cup {t}]
    /\ th' = [th EXCEPT ![t] = Call("runlock", "Size", Nil, NoId, EmptyString,
                                    Size(hashToPolicy))]
    /\ UNCHANGED <<hashToPolicy, nameToHash, committed, hist>>
    /\ ReconcilerUnchanged

\* The deferred pi.mu.RUnlock() of Get, GetAll and Size.
RUnlock(t) ==
    /\ th[t].pc = "runlock"
    /\ mu' = [mu EXCEPT !.readers = mu.readers \ {t}]
    /\ th' = [th EXCEPT ![t] = IdleThread]
    /\ UNCHANGED <<hashToPolicy, nameToHash, committed, hist>>
    /\ ReconcilerUnchanged

NextIndex ==
    \/ \E t \in Threads, policy \in IndexPolicies, h \in Hashes :
           UpsertLock(t, policy, h)
    \/ \E t \in Threads : UpsertOld(t)
    \/ \E t \in Threads : UpsertPut(t)
    \/ \E t \in Threads : UpsertName(t)
    \/ \E t \in Threads, id \in Ids : DeleteLock(t, id)
    \/ \E t \in Threads : DeleteUnknown(t)
    \/ \E t \in Threads : DeleteHash(t)
    \/ \E t \in Threads : DeleteName(t)
    \/ \E t \in Threads : Unlock(t)
    \/ \E t \in Threads, h \in Hashes : GetCall(t, h)
    \/ \E t \in Threads : GetAllCall(t)
    \/ \E t \in Threads : SizeCall(t)
    \/ \E t \in Threads : RUnlock(t)

\* No fingerprint call made, no object allocated.
NoHashCall == [fn |-> "none", pc |-> "none", args |-> << >>, result |-> << >>,
               after |-> << >>]

EmptyMem == [heap |-> << >>, index |-> EmptyIndex, held |-> << >>]

\* The controller as constructed: an empty store, NewPolicyIndex, no
\* invocation and no call in progress.
Constructed ==
    /\ store = [id \in {} |-> Nil]
    /\ hashToPolicy = EmptyIndex
    /\ nameToHash = EmptyReverse
    /\ rec = [id \in Ids |-> IdleFrame]
    /\ known = {}
    /\ last = Output(NoId, NoEvent, "none")
    /\ writes = 0
    /\ mu = [writer |-> "none", readers |-> {}]
    /\ th = [t \in Threads |-> IdleThread]
    /\ committed = [hashToPolicy |-> EmptyIndex, nameToHash |-> EmptyReverse]
    /\ hist = NoCall

Init ==
    /\ Constructed
    /\ hashCall = NoHashCall
    /\ mem = EmptyMem

Next ==
    \/ Reconcile
    \/ Environment

\* The controller and the store.
Spec == Init /\ [][Next]_vars

\* The index under direct calls of its methods.
SpecIndex == Init /\ [][NextIndex]_vars

\* The identities and the operator's writes of the runs that are followed to
\* their end: objects are created and deleted, not edited.
LiveIds == { <<"ns1", "a">>, <<"ns1", "b">> }

\* An invocation that has fetched its object runs to its return.
Continue(id) ==
    \/ NotFoundDelete(id)
    \/ DeletingDelete(id)
    \/ RemoveFinalizerOk(id)
    \/ RemoveFinalizerFail(id)
    \/ AddFinalizerOk(id)
    \/ AddFinalizerFail(id)
    \/ IndexGetConflict(id)
    \/ IndexGetClear(id)
    \/ IndexUpsert(id)
    \/ StatusUpdateOk(id)
    \/ StatusUpdateFail(id)

\* The dispatcher and the store as the deletion path needs them: a running
\* invocation goes on; an object marked for deletion with the finalizer is
\* handed to Reconcile again, after every error, until the fetch succeeds;
\* of the retried writes that clear the finalizer one succeeds.
Fairness ==
    \A id \in LiveIds :
        /\ WF_vars(Continue(id))
        /\ WF_vars(FetchDeleting(id))
        /\ SF_vars(RemoveFinalizerOk(id))

EnvironmentLive ==
    \/ \E id \in LiveIds, spec \in Specs : Create(id, spec)
    \/ \E id \in LiveIds : MarkDelete(id)
    \/ \E id \in LiveIds : Erase(id)

NextLive ==
    \/ Reconcile
    \/ EnvironmentLive

\* The controller and the store, with the dispatcher's retries.
SpecLive == Init /\ [][NextLive]_vars /\ Fairness

-----------------------------------------------------------------------------
(* QueryService: the handler of /api/policies.                                *)

Methods == { "GET", "POST" }

\* A fingerprint no policy has.
DeadBeef == << "deadbeef" >>

\* The query string: no hash parameter, or one with a value (which may be "").
Queries == { Nil } \cup { << h >> : h \in Hashes \cup { EmptyString, DeadBeef } }

\* r.URL.Query().Get("hash"): "" when the parameter is missing.
QueryGet(query) == IF query = Nil THEN EmptyString ELSE query[1]

\* json.NewEncoder(w).Encode(policy): the snapshot as the JSON document.
Encode(policy) == << "json", policy[1] >>

Response(code, body) == [code |-> code, body |-> body]

\* A handler that looks the hash up whatever the method is.
handleGetPolicyAnyMethod(f, method, query) ==
    LET hash == QueryGet(query)
        policy == Get(f, hash)
    IN  IF hash = EmptyString THEN Response(400, Nil)
        ELSE IF policy = Nil THEN Response(404, Nil)
        ELSE Response(200, Encode(policy))

\* handleGetPolicy on the forward map f: what it writes to the client.
handleGetPolicy(f, method, query) ==
    LET hash == QueryGet(query)
        policy == Get(f, hash)
    IN  IF method # "GET" THEN Response(405, Nil)
        ELSE IF hash = EmptyString THEN Response(400, Nil)
        ELSE IF policy = Nil THEN Response(404, Nil)
        ELSE Response(200, Encode(policy))

\* A request being answered: what was asked and what is written back.
Request(method, query, response) ==
    [pc |-> "respond", op |-> "handleGetPolicy", method |-> method,
     query |-> query, result |-> response]

\* handleGetPolicy serves a request. When it gets as far as s.Index.Get it
\* needs the read lock, which Get takes and releases before the response is
\* written.
HandleGetPolicy(t, method, query) ==
    /\ th[t].pc = "idle"
    /\ (method = "GET" /\ QueryGet(query) # EmptyString) => RLockFree(mu)
    /\ th' = [th EXCEPT ![t] =
                 Request(method, query,
                         handleGetPolicy(hashToPolicy, method, query))]
    /\ UNCHANGED <<hashToPolicy, nameToHash, mu, committed, hist>>
    /\ ReconcilerUnchanged

\* The response is written; the handler returns.
Respond(t) ==
    /\ th[t].pc = "respond"
    /\ th' = [th EXCEPT ![t] = IdleThread]
    /\ UNCHANGED <<hashToPolicy, nameToHash, mu, committed, hist>>
    /\ ReconcilerUnchanged

NextApi ==
    \/ NextIndex
    \/ \E t \in Threads, method \in Methods, query \in Queries :
           HandleGetPolicy(t, method, query)
    \/ \E t \in Threads : Respond(t)

\* The read service over an index that is being written.
SpecApi == Init /\ [][NextApi]_vars

-----------------------------------------------------------------------------
(* External I/O of the workers: the calls Reconcile makes to the store and   *)
(* to the event recorder, between its calls of the index.                    *)

ExternalCalls == { "r.Get", "r.Update", "r.Status().Update", "r.Recorder.Event" }

\* A worker that is in no index method calls the store or the recorder.
ExternalCall(t, op) ==
    /\ th[t].pc = "idle"
    /\ th' = [th EXCEPT ![t] = [IdleThread EXCEPT !.pc = "io", !.op = op]]
    /\ UNCHANGED <<hashToPolicy, nameToHash, mu, committed, hist>>
    /\ ReconcilerUnchanged

\* The external call returns.
ExternalReturn(t) ==
    /\ th[t].pc = "io"
    /\ th' = [th EXCEPT ![t] = IdleThread]
    /\ UNCHANGED <<hashToPolicy, nameToHash, mu, committed, hist>>
    /\ ReconcilerUnchanged

NextLock ==
    \/ NextIndex
    \/ \E t \in Threads, op \in ExternalCalls : ExternalCall(t, op)
    \/ \E t \in Threads : ExternalReturn(t)

\* Workers that call the index and the outside world in any order.
SpecLock == Init /\ [][NextLock]_vars

-----------------------------------------------------------------------------
(* Calls of the fingerprint functions, on arguments of every shape.          *)

\* The longest block list, and the most insertions that build a map.
MaxLen == 2

Domains == { "a.com", "b.com" }

BlockLists == UNION { [1..n -> Domains] : n \in 0..MaxLen }

Selectors == { EmptyMap, AppFe, AppBe }

SpecInputs ==
    [targetSelector : Selectors, subject : Selectors,
     blockList : BlockLists, dryRun : BOOLEAN]

\* A map is built by assignments m[k] = v, made in some order.
KeyValues == { << k, v >> : k \in { "app", "tier" }, v \in { "fe", "be" } }

Insertions == UNION { [1..n -> KeyValues] : n \in 0..MaxLen }

RECURSIVE MakeMap(_)
MakeMap(ins) ==
    IF ins = << >> THEN EmptyMap
    ELSE Put(MakeMap(SubSeq(ins, 1, Len(ins) - 1)),
             ins[Len(ins)][1], ins[Len(ins)][2])

\* A call about to be made on two arguments, to compare its two results.
HashCall(fn, args) ==
    [fn |-> fn, pc |-> "call", args |-> args, result |-> << >>,
     after |-> << >>]

InitHash ==
    /\ Constructed
    /\ mem = EmptyMem
    /\ hashCall \in
         { HashCall("ComputeSpecHash", << a, b >>) :
             a \in SpecInputs, b \in SpecInputs }
         \cup
         { HashCall("ComputeSelectorHash", << p, q >>) :
             p \in Insertions, q \in Insertions }

HashUnchanged ==
    UNCHANGED <<store, known, hashToPolicy, nameToHash, rec, last, writes,
                mu, th, committed, hist, mem>>

\* ComputeSpecHash(&spec) on each argument: the hash, and the spec as the
\* call leaves it.
CallComputeSpecHash ==
    /\ hashCall.fn = "ComputeSpecHash"
    /\ hashCall.pc = "call"
    /\ hashCall' =
         [hashCall EXCEPT
            !.pc = "return",
            !.result = << ComputeSpecHash(hashCall.args[1]),
                          ComputeSpecHash(hashCall.args[2]) >>,
            !.after = << SpecAfterComputeSpecHash(hashCall.args[1]),
                         SpecAfterComputeSpecHash(hashCall.args[2]) >>]
    /\ HashUnchanged

\* ComputeSelectorHash on the map each sequence of insertions builds.
CallComputeSelectorHash ==
    /\ hashCall.fn = "ComputeSelectorHash"
    /\ hashCall.pc = "call"
    /\ hashCall' =
         [hashCall EXCEPT
            !.pc = "return",
            !.result = << ComputeSelectorHash(MakeMap(hashCall.args[1])),
                          ComputeSelectorHash(MakeMap(hashCall.args[2])) >>]
    /\ HashUnchanged

NextHash ==
    \/ CallComputeSpecHash
    \/ CallComputeSelectorHash

\* The fingerprint functions on their own.
SpecHash == InitHash /\ [][NextHash]_vars

-----------------------------------------------------------------------------
(* The index and its callers as objects and pointers: what Upsert stores,    *)
(* what Get and GetAll hand out, and what a caller does to its own objects.  *)

\* How many DnsPolicy objects are alive at once.
MaxObjects == 4

Addrs == 1..MaxObjects

AliasPolicies ==
    { NewPolicy(id, [targetSelector |-> AppFe, subject |-> EmptyMap,
                     blockList |-> << "a.com" >>, dryRun |-> FALSE]) :
        id \in { <<"ns1", "a">>, <<"ns1", "b">> } }

\* The address of a new object.
Alloc(heap) ==
    CHOOSE a \in Addrs \ DOMAIN heap : \A b \in Addrs \ DOMAIN heap : a <= b

HasRoom(heap, n) == Cardinality(Addrs \ DOMAIN heap) >= n

\* policy.DeepCopy(): a new object with the content of the one it copies.
DeepCopy(heap, a) ==
    LET b == Alloc(heap)
    IN  [heap |-> Put(heap, b, heap[a]), ptr |-> b]

\* An Upsert that stores the pointer it was given.
UpsertStoresArgument(heap, a) == [heap |-> heap, ptr |-> a]

\* What Upsert puts in the forward map: policy.DeepCopy().
UpsertStored(heap, a) == DeepCopy(heap, a)

\* What Get and GetAll hand out for an entry: policy.DeepCopy().
GetReturned(heap, a) == DeepCopy(heap, a)

\* The forward map as the pointers and the objects make it.
Deref(heap, index) == [h \in DOMAIN index |-> heap[index[h]]]

\* The objects somebody still points to; the others are garbage.
Collect(heap, index, held) ==
    [a \in { x \in DOMAIN heap :
               x \in DOMAIN held \/ \E h \in DOMAIN index : index[h] = x }
       |-> heap[a]]

\* What the caller does to an object of its own: what Reconcile does to its
\* policy after Upsert, updateCondition(Ready, True, Reconciled).
Mutated(policy) ==
    [policy EXCEPT !.status.conditions =
                       updateCondition(policy, "Ready", "True", "Reconciled")]

AliasUnchanged ==
    UNCHANGED <<store, known, rec, last, writes, mu, th, committed, hist,
                hashCall>>

\* A caller makes a policy object and calls Upsert(&policy, selectorHash); it
\* keeps its pointer.
AliasUpsert(policy, selectorHash) ==
    /\ HasRoom(mem.heap, 2)
    /\ LET a == Alloc(mem.heap)
           stored == UpsertStored(Put(mem.heap, a, policy), a)
           index == Put(UpsertRemoveOld(mem.index, nameToHash, policy,
                                        selectorHash),
                        selectorHash, stored.ptr)
           held == Put(mem.held, a, "Upsert")
       IN  /\ mem' = [heap |-> Collect(stored.heap, index, held),
                      index |-> index, held |-> held]
           /\ hashToPolicy' = Deref(stored.heap, index)
           /\ nameToHash' = UpsertReverse(nameToHash, policy, selectorHash)
    /\ AliasUnchanged

\* A caller calls Get(selectorHash) and keeps the pointer it gets.
AliasGet(selectorHash) ==
    /\ selectorHash \in DOMAIN mem.index
    /\ HasRoom(mem.heap, 1)
    /\ LET got == GetReturned(mem.heap, mem.index[selectorHash])
       IN  mem' = [mem EXCEPT !.heap = got.heap,
                              !.held = Put(mem.held, got.ptr, "Get")]
    /\ UNCHANGED <<hashToPolicy, nameToHash>>
    /\ AliasUnchanged

RECURSIVE CopyAll(_, _, _)
CopyAll(heap, held, ptrs) ==
    IF ptrs = {} THEN [heap |-> heap, held |-> held]
    ELSE LET a == CHOOSE x \in ptrs : TRUE
             got == GetReturned(heap, a)
         IN  CopyAll(got.heap, Put(held, got.ptr, "GetAll"), ptrs \ {a})

\* A caller calls GetAll() and keeps the pointers of the slice.
AliasGetAll ==
    /\ DOMAIN mem.index # {}
    /\ HasRoom(mem.heap, Cardinality(DOMAIN mem.index))
    /\ LET all == CopyAll(mem.heap, mem.held,
                          { mem.index[h] : h \in DOMAIN mem.index })
       IN  mem' = [mem EXCEPT !.heap = all.heap, !.held = all.held]
    /\ UNCHANGED <<hashToPolicy, nameToHash>>
    /\ AliasUnchanged

\* A caller writes to an object it holds a pointer to.
Mutate(a) ==
    /\ a \in DOMAIN mem.held
    /\ mem.heap[a] # Mutated(mem.heap[a])
    /\ LET heap == [mem.heap EXCEPT ![a] = Mutated(mem.heap[a])]
       IN  /\ mem' = [mem EXCEPT !.heap = heap]
           /\ hashToPolicy' = Deref(heap, mem.index)
    /\ UNCHANGED nameToHash
    /\ AliasUnchanged

\* A caller drops a pointer.
Release(a) ==
    /\ a \in DOMAIN mem.held
    /\ LET held == Remove(mem.held, a)
       IN  mem' = [mem EXCEPT !.held = held,
                              !.heap = Collect(mem.heap, mem.index, held)]
    /\ UNCHANGED <<hashToPolicy, nameToHash>>
    /\ AliasUnchanged

NextAlias ==
    \/ \E policy \in AliasPolicies, h \in Hashes : AliasUpsert(policy, h)
    \/ \E h \in Hashes : AliasGet(h)
    \/ AliasGetAll
    \/ \E a \in Addrs : Mutate(a)
    \/ \E a \in Addrs : Release(a)

\* The index among callers that keep and change the objects they passed in
\* and got back.
SpecAlias == Init /\ [][NextAlias]_vars

-----------------------------------------------------------------------------
(* Calls of updateCondition, one after the other on the same policy object.  *)

ConditionTypes == { "Ready", "Progressing" }

ConditionStatuses == { "True", "False" }

Reasons == { "Reconciled", "InvalidSpec", "HashComputationFailed" }

\* The policy objects the calls start from: no condition yet, any generation.
CondPolicies ==
    { [NewPolicy(<<"ns1", "a">>,
                 [targetSelector |-> AppFe, subject |-> EmptyMap,
                  blockList |-> << >>, dryRun |-> FALSE])
         EXCEPT !.generation = g] : g \in 1..MaxGen }

InitCond ==
    /\ Constructed
    /\ mem = EmptyMem
    /\ hashCall \in
         { [fn |-> "updateCondition", pc |-> "call", args |-> << policy >>,
            result |-> << >>, after |-> << policy >>] :
             policy \in CondPolicies }

\* r.updateCondition(ctx, &policy, conditionType, status, reason, message) on
\* the policy as the call before left it.
CallUpdateCondition(conditionType, status, reason) ==
    /\ hashCall.fn = "updateCondition"
    /\ LET policy == hashCall.after[1]
       IN  hashCall' =
             [hashCall EXCEPT
                !.pc = "return",
                !.args = << policy, conditionType, status, reason >>,
                !.after =
                    << [policy EXCEPT !.status.conditions =
                           updateCondition(policy, conditionType, status,
                                           reason)] >>]
    /\ HashUnchanged

NextCond ==
    \E conditionType \in ConditionTypes, status \in ConditionStatuses,
       reason \in Reasons :
        CallUpdateCondition(conditionType, status, reason)

\* updateCondition under every sequence of calls.
SpecCond == InitCond /\ [][NextCond]_vars

-----------------------------------------------------------------------------
(* Properties.                                                               *)

\* The fingerprints under which the forward map holds a snapshot of id.
SnapshotHashes(f, id) == { h \in DOMAIN f : Identity(f[h]) = id }

\* The identity has no reverse entry and no forward snapshot.
Unindexed(id) ==
    /\ id \notin DOMAIN nameToHash
    /\ SnapshotHashes(hashToPolicy, id) = {}

\* The object's stored status carries the condition.
HasCondition(policy, conditionType, status, reasons) ==
    \E i \in 1..Len(policy.status.conditions) :
        /\ policy.status.conditions[i].type = conditionType
        /\ policy.status.conditions[i].status = status
        /\ policy.status.conditions[i].reason \in reasons

\* C1: at most one policy identity owns a given selectorHash: no two
\* identities of the reverse map have the same fingerprint.
C1_OneOwnerPerHash ==
    \A a \in DOMAIN nameToHash, b \in DOMAIN nameToHash :
        nameToHash[a] = nameToHash[b] => a = b

\* Another identity, whose own Reconcile is not running, is indexed under the
\* fingerprint the invocation of id is about to look up; id itself is not
\* indexed.
FirstIsIndexed(id) ==
    /\ rec[id].pc = "index_get"
    /\ id \notin DOMAIN nameToHash
    /\ \E other \in DOMAIN nameToHash :
          /\ other # id
          /\ rec[other].pc = "idle"
          /\ nameToHash[other] = rec[id].selectorHash
          /\ Get(hashToPolicy, rec[id].selectorHash) # Nil
          /\ Identity(Get(hashToPolicy, rec[id].selectorHash)[1]) = other

\* C2: of two policies with different identities and the same fingerprint,
\* reconciled one after the other, the second gets the duplicate-hash error,
\* the index keeps the first and the second has no entry.
C2_SecondIsRejected ==
    [][\A id \in Ids :
          (FirstIsIndexed(id) /\ rec'[id].pc # "index_get")
          => /\ last' = Output(id, Event("Warning", "DuplicatHash"),
                               "DuplicateHash")
             /\ hashToPolicy' = hashToPolicy
             /\ id \notin DOMAIN nameToHash']_vars

\* C3: when no write is in progress the two maps are in one-to-one
\* correspondence and Size() is the number of identities of the reverse map.
C3_OneToOne ==
    mu.writer = "none" =>
        /\ \A h \in DOMAIN hashToPolicy :
              Cardinality({ id \in DOMAIN nameToHash : nameToHash[id] = h }) = 1
        /\ \A id \in DOMAIN nameToHash : nameToHash[id] \in DOMAIN hashToPolicy
        /\ Size(hashToPolicy) = Cardinality(DOMAIN nameToHash)

\* C4: a Reconcile that ends with the duplicate-hash failure leaves its policy
\* without a reverse entry and without a forward snapshot (looked at where
\* every fingerprint of the index has one owner, so that the policy can only
\* have been indexed under a different fingerprint before).
C4_ConflictLeavesUnindexed ==
    [][\A id \in Ids :
          (C1_OneOwnerPerHash /\ IndexGetConflict(id)) => Unindexed(id)']_vars

\* C5: an object that is in the store marked for deletion with the finalizer
\* cleared (from the write that clears it until the store erases the object)
\* has no reverse entry and no forward snapshot.
C5_CleanupBeforeRemoval ==
    \A id \in DOMAIN store :
        (store[id].deleting /\ ~store[id].finalizer) => Unindexed(id)

\* C5 happens: an object that was reconciled and indexed is in the store with
\* the finalizer cleared by Reconcile.
C5_Witness ==
    \E id \in DOMAIN store :
        /\ store[id].deleting /\ ~store[id].finalizer
        /\ store[id].status.selectorHash # EmptyString
        /\ last = Output(id, NoEvent, "ok")
        /\ Unindexed(id)

\* What the index holds for an identity: its reverse entry and its snapshots.
IndexedAs(id) ==
    [reverse |-> IF id \in DOMAIN nameToHash THEN << nameToHash[id] >> ELSE Nil,
     forward |-> { << h, hashToPolicy[h] >> : h \in SnapshotHashes(hashToPolicy, id) }]

\* C6: the index takes an entry of an identity only in the Upsert step of an
\* invocation that fetched the object with the finalizer and not marked for
\* deletion, and the object in the store carries the finalizer then; the
\* invocation that finds no finalizer goes on to persist it and ends there,
\* leaving the index and the stored status alone.
C6_FinalizerBeforeIndex ==
    [][\A id \in Ids :
          /\ ( \/ IndexedAs(id).reverse' \notin {Nil, IndexedAs(id).reverse}
                \/ ~(IndexedAs(id).forward' \subseteq IndexedAs(id).forward) )
             => /\ rec[id].pc = "index_upsert"
                /\ rec[id].fetched.finalizer
                /\ ~rec[id].fetched.deleting
                /\ id \in DOMAIN store
                /\ store[id].finalizer
          /\ (rec[id].pc = "idle" /\ rec'[id].pc # "idle"
                /\ id \in DOMAIN store /\ ~store[id].finalizer
                /\ ~store[id].deleting)
             => rec'[id].pc = "add_finalizer"
          /\ (rec[id].pc = "add_finalizer" /\ rec'[id] # rec[id])
             => /\ rec'[id].pc = "idle"
                /\ UNCHANGED <<hashToPolicy, nameToHash>>
                /\ \A o \in DOMAIN store \cap DOMAIN store' :
                      store'[o].status = store[o].status]_vars

\* C6 happens: an identity is indexed with a snapshot that carries the
\* finalizer, and the store object carries it.
C6_Witness ==
    \E id \in DOMAIN nameToHash :
        /\ id \in DOMAIN store
        /\ store[id].finalizer
        /\ nameToHash[id] \in DOMAIN hashToPolicy
        /\ hashToPolicy[nameToHash[id]].finalizer
        /\ Identity(hashToPolicy[nameToHash[id]]) = id

\* C7: after a Reconcile that fails validation or the conflict check, the
\* stored status carries Ready = False with the matching reason.
C7_FailureIsStandingCondition ==
    [][\A id \in Ids :
          /\ FetchInvalid(id)
             => HasCondition(store'[id], "Ready", "False", {"InvalidSpec"})
          /\ IndexGetConflict(id)
             => HasCondition(store'[id], "Ready", "False",
                             {"HashComputationFailed", "DuplicateHash"})]_vars

\* What a read call returns on a forward map.
ReadOf(call, f) ==
    CASE call.op = "Get" -> Get(f, call.hash)
      [] call.op = "GetAll" -> GetAll(f)
      [] call.op = "Size" -> Size(f)

\* The forward map as the write in progress, if there is one, will leave it.
AfterPendingWrite ==
    IF mu.writer = "none" THEN committed.hashToPolicy
    ELSE LET w == th[mu.writer]
         IN  IF w.op = "Upsert"
             THEN Upsert(committed.hashToPolicy, committed.nameToHash,
                         w.policy[1], w.hash).hashToPolicy
             ELSE Delete(committed.hashToPolicy, committed.nameToHash,
                         w.name).hashToPolicy

\* C8: what a Get, GetAll or Size returned, while the reader still holds its
\* read lock, is the result on the maps as they were before or as they are
\* after the concurrent write, never on a half-updated pair.
C8_ReadersSeeWholeWrites ==
    \A t \in Threads :
        th[t].pc = "runlock" =>
            \/ th[t].result = ReadOf(th[t], committed.hashToPolicy)
            \/ th[t].result = ReadOf(th[t], AfterPendingWrite)

\* C8 happens: right after an Upsert, two readers hold the read lock at once,
\* and the GetAll of one returned the upserted policy.
C8_Witness ==
    \E t \in Threads, u \in Threads :
        /\ t # u
        /\ th[t].pc = "runlock" /\ th[t].op = "GetAll"
        /\ th[u].pc = "runlock"
        /\ hist.op = "Upsert"
        /\ hist.policy[1] \in th[t].result

\* C9: when Upsert(P, h2) has run right after Upsert(P, h1), h1 # h2, Get(h1)
\* is absent and Get(h2) returns a copy equal to P.
C9_RekeyMovesTheEntry ==
    \A t \in Threads :
        ( /\ th[t].pc = "unlock" /\ th[t].op = "Upsert"
          /\ hist.op = "Upsert"
          /\ hist.name = th[t].name
          /\ hist.hash # th[t].hash )
        => /\ Get(hashToPolicy, hist.hash) = Nil
           /\ Get(hashToPolicy, th[t].hash) = th[t].policy

\* C9 happens: the same policy was upserted under h1 and then under h2, on an
\* index that holds another policy too.
C9_Witness ==
    \E t \in Threads :
        /\ th[t].pc = "unlock" /\ th[t].op = "Upsert"
        /\ hist.op = "Upsert"
        /\ hist.policy = th[t].policy
        /\ hist.hash # th[t].hash
        /\ Cardinality(DOMAIN nameToHash) > 1

\* C10: when Delete(identity(P)) has run right after Upsert(P, h), Get(h) is
\* absent and Size() is one less than right after the Upsert.
C10_DeleteAfterUpsert ==
    \A t \in Threads :
        ( /\ th[t].pc = "unlock" /\ th[t].op = "Delete"
          /\ hist.op = "Upsert"
          /\ hist.name = th[t].name )
        => /\ Get(hashToPolicy, hist.hash) = Nil
           /\ Size(hashToPolicy) = hist.size - 1

\* C10 happens: a policy was upserted and then deleted, on an index that
\* holds another policy too.
C10_Witness ==
    \E t \in Threads :
        /\ th[t].pc = "unlock" /\ th[t].op = "Delete"
        /\ hist.op = "Upsert"
        /\ hist.name = th[t].name
        /\ hist.size = 2
        /\ Size(hashToPolicy) = 1

\* C11: every forward entry h -> snapshot of the index that Reconcile
\* maintains has snapshot.status.selectorHash = h, and a GET with hash = h is
\* answered 200 with that snapshot, whose status carries h.
C11_SnapshotCarriesItsHash ==
    \A h \in DOMAIN hashToPolicy :
        /\ hashToPolicy[h].status.selectorHash = h
        /\ LET response == handleGetPolicy(hashToPolicy, "GET", << h >>)
           IN  /\ response.code = 200
               /\ response.body = << "json", hashToPolicy[h] >>
               /\ response.body[2].status.selectorHash = h

\* C11 happens: a policy that was re-keyed is indexed under its new
\* fingerprint, which is not the one its stored status had when it was fetched.
C11_Witness ==
    \E id \in DOMAIN nameToHash :
        /\ id \in DOMAIN store
        /\ store[id].generation > 1
        /\ nameToHash[id] \in DOMAIN hashToPolicy
        /\ Identity(hashToPolicy[nameToHash[id]]) = id
        /\ hashToPolicy[nameToHash[id]].generation > 1
        /\ store[id].status.selectorHash \notin { EmptyString, nameToHash[id] }

\* C12: on the deletion path, when r.Update of the object without the
\* finalizer fails, Reconcile returns the error and the object in the store
\* still carries the finalizer and the deletion mark; every invocation that
\* then starts on it takes the deletion path again, whose Delete step leaves
\* the identity without an index entry, and the r.Update that succeeds clears
\* the finalizer in the store.
C12_FailedRemovalIsRetried ==
    [][\A id \in Ids :
          /\ ( /\ rec[id].pc = "remove_finalizer"
               /\ rec'[id].pc = "idle"
               /\ last'.result # "ok" )
             => /\ last' = Output(id, Event("Warning", "FinalizerRemovalFailed"),
                                  "UpdateError")
                /\ id \in DOMAIN store'
                /\ store'[id].finalizer
                /\ store'[id].deleting
          /\ ( /\ rec[id].pc = "idle" /\ rec'[id].pc # "idle"
               /\ id \in DOMAIN store
               /\ store[id].deleting /\ store[id].finalizer )
             => rec'[id].pc = "deleting_delete"
          /\ (rec[id].pc = "deleting_delete" /\ rec'[id] # rec[id])
             => /\ rec'[id].pc = "remove_finalizer"
                /\ Unindexed(id)'
          /\ ( /\ rec[id].pc = "remove_finalizer"
               /\ rec'[id].pc = "idle"
               /\ last'.result = "ok" )
             => /\ id \in DOMAIN store'
                /\ ~store'[id].finalizer]_vars

\* C12 happens: the removal of the finalizer failed, the object still carries
\* it, and the next invocation is on the deletion path again.
C12_Witness ==
    \E id \in DOMAIN store :
        /\ rec[id].pc = "deleting_delete"
        /\ last = Output(id, Event("Warning", "FinalizerRemovalFailed"),
                         "UpdateError")
        /\ store[id].finalizer
        /\ store[id].deleting

\* C13: the answer to a request to /api/policies is fixed by the method, the
\* hash parameter and the forward map at the time of the lookup: 405 for a
\* method other than GET; 400 for GET without a hash or with an empty one; 404
\* for GET with a hash that has no forward entry; 200 with the entry's snapshot
\* otherwise. Serving the request leaves both maps as they were.
C13_ResponseIsFunctionOfRequest ==
    [][\A t \in Threads :
          (th[t].pc = "idle" /\ th'[t].pc = "respond") =>
              LET method == th'[t].method
                  query == th'[t].query
                  response == th'[t].result
                  missing == query = Nil \/ query = << EmptyString >>
              IN  /\ method # "GET" => response = Response(405, Nil)
                  /\ (method = "GET" /\ missing) => response = Response(400, Nil)
                  /\ (method = "GET" /\ ~missing
                        /\ query[1] \notin DOMAIN hashToPolicy)
                     => response = Response(404, Nil)
                  /\ (method = "GET" /\ ~missing
                        /\ query[1] \in DOMAIN hashToPolicy)
                     => response =
                            Response(200, << "json", hashToPolicy[query[1]] >>)
                  /\ UNCHANGED <<hashToPolicy, nameToHash>>]_vars

\* C13 happens: one request is being answered 200 with a snapshot while
\* another, for a hash that has no entry, is being answered 404.
C13_Witness ==
    \E t \in Threads, u \in Threads :
        /\ th[t].pc = "respond" /\ th[t].result.code = 200
        /\ th[t].result.body[2] \in IndexPolicies
        /\ th[u].pc = "respond" /\ th[u].result.code = 404

\* C14: the commit step goes on to Status().Update exactly when the computed
\* selectorHash, the computed specHash or the generation differs from what the
\* fetched status records; the stored status changes only in that write, and
\* then it carries the three values and Ready = True with reason Reconciled;
\* when the three match the invocation ends after Upsert with no write.
C14_StatusWrittenIffChanged ==
    [][\A id \in Ids :
          LET fetched == rec[id].fetched
              selectorHash == ComputeSelectorHash(HashObject(fetched.spec))
              specHash == ComputeSpecHash(fetched.spec)
              differs == \/ fetched.status.selectorHash # selectorHash
                         \/ fetched.status.specHash # specHash
                         \/ fetched.status.observedGeneration # fetched.generation
          IN  /\ (rec[id].pc = "index_upsert" /\ rec'[id] # rec[id])
                 => /\ differs => rec'[id].pc = "status_update"
                    /\ ~differs => /\ rec'[id].pc = "idle"
                                   /\ last'.result = "ok"
                    /\ store' = store
              /\ ( /\ id \in DOMAIN store /\ id \in DOMAIN store'
                   /\ store'[id].status # store[id].status )
                 => /\ rec[id].pc = "status_update"
                    /\ differs
                    /\ store'[id].status.selectorHash = selectorHash
                    /\ store'[id].status.specHash = specHash
                    /\ store'[id].status.observedGeneration = store'[id].generation
                    /\ HasCondition(store'[id], "Ready", "True", {"Reconciled"})
              /\ ( /\ rec[id].pc = "status_update" /\ rec'[id].pc = "idle"
                   /\ last'.result = "ok" )
                 => store'[id].status # store[id].status]_vars

\* C14 happens: an invocation on an object whose stored status already has the
\* three values ended after Upsert, without a status write.
C14_Witness ==
    \E id \in DOMAIN store :
        /\ last = Output(id, Event("Normal", "PolicyIndexed"), "ok")
        /\ store[id].status.observedGeneration = store[id].generation
        /\ store[id].status.selectorHash =
               ComputeSelectorHash(HashObject(store[id].spec))
        /\ HasCondition(store[id], "Ready", "True", {"Reconciled"})

\* C19: a worker that is in a call to the store or to the event recorder holds
\* the index lock neither as writer nor as reader; a worker that is in no
\* index method holds no lock (every method releases it before it returns);
\* and whoever holds the lock can take its next step, so that the lock is
\* released without waiting for anyone.
C19_NoIOUnderTheLock ==
    \A t \in Threads :
        /\ th[t].pc = "io" => (mu.writer # t /\ t \notin mu.readers)
        /\ th[t].pc = "idle" => (mu.writer # t /\ t \notin mu.readers)
        /\ (mu.writer = t \/ t \in mu.readers)
           => ENABLED ( \/ UpsertOld(t) \/ UpsertPut(t) \/ UpsertName(t)
                        \/ DeleteUnknown(t) \/ DeleteHash(t) \/ DeleteName(t)
                        \/ Unlock(t) \/ RUnlock(t) )

\* C19 happens: one worker is in a store call while the other is inside
\* Upsert with the write lock, and the index already holds an entry.
C19_Witness ==
    \E t \in Threads, u \in Threads :
        /\ th[t].pc = "io" /\ th[t].op = "r.Status().Update"
        /\ mu.writer = u
        /\ th[u].pc = "upsert_reverse"
        /\ Size(hashToPolicy) > 1

\* C20: the invocation that finds no object goes on to Index.Delete and returns
\* success, leaving the store alone and the index as Delete leaves it; and in
\* every index state Reconcile reaches, Delete of an identity leaves it without
\* a reverse entry and without a forward snapshot, changes nothing when the
\* identity has no reverse entry, and changes nothing when it is repeated.
C20_NotFoundCleansIndex ==
    [][\A id \in Ids :
          LET d == Delete(hashToPolicy, nameToHash, id)
          IN  /\ ( /\ rec[id].pc = "idle" /\ rec'[id].pc # "idle"
                   /\ id \notin DOMAIN store )
                 => rec'[id].pc = "notfound_delete"
              /\ (rec[id].pc = "notfound_delete" /\ rec'[id] # rec[id])
                 => /\ rec'[id].pc = "idle"
                    /\ last' = Output(id, NoEvent, "ok")
                    /\ hashToPolicy' = d.hashToPolicy
                    /\ nameToHash' = d.nameToHash
                    /\ Unindexed(id)'
                    /\ store' = store
              /\ id \notin DOMAIN d.nameToHash
              /\ SnapshotHashes(d.hashToPolicy, id) = {}
              /\ id \notin DOMAIN nameToHash
                 => d = [hashToPolicy |-> hashToPolicy, nameToHash |-> nameToHash]
              /\ Delete(d.hashToPolicy, d.nameToHash, id) = d]_vars

\* C20 happens: an identity whose object is gone had its invocation return
\* success, it has no entry, and the entry of another policy is still there.
C20_Witness ==
    \E id \in known :
        /\ id \notin DOMAIN store
        /\ rec[id].pc = "idle"
        /\ last = Output(id, NoEvent, "ok")
        /\ Unindexed(id)
        /\ \E other \in DOMAIN nameToHash :
              /\ other # id
              /\ nameToHash[other] \in DOMAIN hashToPolicy

\* A block list is another one in a different order.
IsPermutation(s, t) ==
    /\ Len(s) = Len(t)
    /\ \A x \in Domains :
          Cardinality({ i \in 1..Len(s) : s[i] = x })
              = Cardinality({ i \in 1..Len(t) : t[i] = x })

\* C15: two specs with the same ComputeSpecHash result agree on targetSelector,
\* subject and dryRun and have the same block list up to order (the digest
\* taken as collision free); that is, a change to any field changes specHash.
C15_SpecHashCoversTheSpec ==
    (hashCall.fn = "ComputeSpecHash" /\ hashCall.pc = "return") =>
        LET a == hashCall.args[1]
            b == hashCall.args[2]
        IN  hashCall.result[1] = hashCall.result[2] =>
                /\ a.targetSelector = b.targetSelector
                /\ a.subject = b.subject
                /\ a.dryRun = b.dryRun
                /\ IsPermutation(a.blockList, b.blockList)

\* C16: two specs that differ only in the order of the block list have the
\* same ComputeSpecHash result.
C16_SpecHashIgnoresBlockListOrder ==
    (hashCall.fn = "ComputeSpecHash" /\ hashCall.pc = "return") =>
        LET a == hashCall.args[1]
            b == hashCall.args[2]
        IN  ( /\ a.targetSelector = b.targetSelector
              /\ a.subject = b.subject
              /\ a.dryRun = b.dryRun
              /\ IsPermutation(a.blockList, b.blockList) )
            => hashCall.result[1] = hashCall.result[2]

\* C16 happens: ComputeSpecHash has returned for two specs whose block lists
\* are the same two entries in opposite orders.
C16_Witness ==
    /\ hashCall.fn = "ComputeSpecHash"
    /\ hashCall.pc = "return"
    /\ hashCall.args[1].blockList = << "b.com", "a.com" >>
    /\ hashCall.args[2] =
           [hashCall.args[1] EXCEPT !.blockList = << "a.com", "b.com" >>]
    /\ hashCall.result[1] = hashCall.result[2]

\* The insertions assign each key once.
DistinctKeys(ins) ==
    \A i \in 1..Len(ins), j \in 1..Len(ins) : ins[i][1] = ins[j][1] => i = j

C18_IndexDoesNotAlias ==
    [][/\ \A a \in DOMAIN mem.held, h \in DOMAIN mem.index : mem.index[h] # a
       /\ (\E a \in DOMAIN mem.held :
              /\ a \in DOMAIN mem'.heap
              /\ mem'.heap[a] # mem.heap[a])
          => /\ \A h \in Hashes :
                   Get(hashToPolicy', h) = Get(hashToPolicy, h)
             /\ GetAll(hashToPolicy') = GetAll(hashToPolicy)]_vars

\* C18 happens: a caller has written to the object it passed to Upsert and to
\* an object it got from Get, and the snapshot in the index is without the
\* change.
C18_Witness ==
    \E a \in DOMAIN mem.held, b \in DOMAIN mem.held, h \in DOMAIN hashToPolicy :
        /\ mem.held[a] = "Upsert"
        /\ mem.held[b] = "Get"
        /\ Identity(mem.heap[a]) = Identity(hashToPolicy[h])
        /\ Identity(mem.heap[b]) = Identity(hashToPolicy[h])
        /\ mem.heap[a].status.conditions # << >>
        /\ mem.heap[b].status.conditions # << >>
        /\ hashToPolicy[h].status.conditions = << >>

\* A thread is about to return from Upsert(P, h), and the write call that
\* released the lock before it took it was Upsert(P, h) as well.
SecondUpsertInARow(t) ==
    /\ th[t].pc = "unlock"
    /\ th[t].op = "Upsert"
    /\ hist.op = "Upsert"
    /\ hist.policy = th[t].policy
    /\ hist.hash = th[t].hash

\* C21: Upsert is idempotent: a second Upsert(P, h) in a row leaves both maps
\* as the first one left them, from every state of the index the calls reach
\* and for every policy and fingerprint.
C21_UpsertIsIdempotent ==
    /\ \A t \in Threads :
          SecondUpsertInARow(t)
          => /\ hashToPolicy = committed.hashToPolicy
             /\ nameToHash = committed.nameToHash
    /\ \A policy \in IndexPolicies, h \in Hashes :
          LET once == Upsert(hashToPolicy, nameToHash, policy, h)
          IN  Upsert(once.hashToPolicy, once.nameToHash, policy, h) = once

\* C21 happens: the second of two calls Upsert(P, h) in a row is done, and
\* the first one re-keyed P from another fingerprint, next to a snapshot of
\* another identity.
C21_Witness ==
    \E t \in Threads :
        /\ SecondUpsertInARow(t)
        /\ Cardinality(DOMAIN nameToHash) >= 2
        /\ nameToHash[th[t].name] = th[t].hash
        /\ hashToPolicy[th[t].hash] = th[t].policy[1]

\* The results of the failures that come before the commit step.
EarlyFailures == { "InvalidSpec", "HashComputationFailed", "DuplicateHash" }

\* The invocation of id takes a step that returns one of the early failures.
ReturnsEarlyFailure(id) ==
    /\ last'.id = id
    /\ last'.result \in EarlyFailures
    /\ (last' # last \/ rec'[id] # rec[id])

\* C22: an invocation that returns a validation error, a hash-computation
\* error or the duplicate-hash error changes neither map of the index: not in
\* the step that returns the error, nor in the step before it that computes
\* the selector hash.
C22_FailuresLeaveIndexAlone ==
    [][\A id \in Ids :
          ( \/ ReturnsEarlyFailure(id)
            \/ (rec[id].pc = "idle" /\ rec'[id].pc = "index_get") )
          => UNCHANGED <<hashToPolicy, nameToHash>>]_vars

\* C22 happens: the duplicate-hash error was returned for a policy that was
\* indexed before, and its entry is still there.
C22_Witness ==
    /\ last.result = "DuplicateHash"
    /\ rec[last.id].pc = "idle"
    /\ last.id \in DOMAIN nameToHash
    /\ SnapshotHashes(hashToPolicy, last.id) # {}

\* The object is in the store, marked for deletion, with the finalizer.
MarkedWithFinalizer(id) ==
    /\ id \in DOMAIN store
    /\ store[id].deleting
    /\ store[id].finalizer

\* The object has lost its finalizer on the deletion path, or is gone.
Cleared(id) ==
    \/ id \notin DOMAIN store
    \/ (store[id].deleting /\ ~store[id].finalizer)

\* C23: with the dispatcher's retries and a store whose writes succeed in
\* the end, every object marked for deletion with the finalizer gets its
\* finalizer cleared, and for as long as it is cleared or gone the index has
\* no entry of its identity.
C23_DeletionCompletes ==
    \A id \in LiveIds :
        /\ MarkedWithFinalizer(id) ~> Cleared(id)
        /\ [](Cleared(id) => Unindexed(id))

\* C23 happens: an object that was reconciled and then marked for deletion
\* has its finalizer cleared and no entry, while the policy of another
\* identity is still in the index.
C23_Witness ==
    \E id \in LiveIds :
        /\ id \in DOMAIN store
        /\ store[id].deleting /\ ~store[id].finalizer
        /\ store[id].status.selectorHash # EmptyString
        /\ rec[id].pc = "idle"
        /\ Unindexed(id)
        /\ \E other \in DOMAIN nameToHash : other # id

\* The positions of the entries of a condition type.
EntriesOf(conds, conditionType) ==
    { i \in 1..Len(conds) : conds[i].type = conditionType }

\* C24: after any sequence of updateCondition calls the condition list has
\* at most one entry per condition type, and after
\* updateCondition(type, status, reason, message) the entry of that type
\* carries the given status and the given reason.
C24_InsertOrUpdateByType ==
    (hashCall.fn = "updateCondition" /\ hashCall.pc = "return") =>
        LET conds == hashCall.after[1].status.conditions
            conditionType == hashCall.args[2]
        IN  /\ \A t \in ConditionTypes :
                  Cardinality(EntriesOf(conds, t)) <= 1
            /\ \E i \in EntriesOf(conds, conditionType) :
                  /\ conds[i].status = hashCall.args[3]
                  /\ conds[i].reason = hashCall.args[4]

\* C25: between the calls of Upsert and Delete, every forward entry
\* h -> snapshot of X has the reverse entry X -> h; so no identity has
\* snapshots under two fingerprints, and Delete(X) removes the snapshot of X
\* if there is one, both as the call that has just returned and as a call made
\* next.
C25_ForwardHasReverse ==
    mu.writer = "none" =>
        /\ \A h \in DOMAIN hashToPolicy :
              LET X == Identity(hashToPolicy[h])
              IN  X \in DOMAIN nameToHash /\ nameToHash[X] = h
        /\ \A X \in Ids :
              /\ Cardinality(SnapshotHashes(hashToPolicy, X)) <= 1
              /\ SnapshotHashes(
                     Delete(hashToPolicy, nameToHash, X).hashToPolicy, X) = {}
        /\ hist.op = "Delete" => Unindexed(hist.name)

\* C25 happens: a Delete has returned, and the index is left with a snapshot
\* under a fingerprint that two identities have in the reverse map.
C25_Witness ==
    /\ mu.writer = "none"
    /\ hist.op = "Delete"
    /\ \E h \in DOMAIN hashToPolicy :
          Cardinality({ id \in DOMAIN nameToHash : nameToHash[id] = h }) = 2

\* The policy of id has been reconciled with success as it is in the store,
\* no invocation for it is running, and Get on its fingerprint returns a
\* snapshot of it.
Served(id) ==
    /\ id \in DOMAIN store
    /\ ~store[id].deleting
    /\ rec[id].pc = "idle"
    /\ ~InvalidSpec(store[id].spec)
    /\ LET h == ComputeSelectorHash(HashObject(store[id].spec))
       IN  /\ store[id].status.selectorHash = h
           /\ store[id].status.observedGeneration = store[id].generation
           /\ Get(hashToPolicy, h) # Nil
           /\ Identity(Get(hashToPolicy, h)[1]) = id

\* C26: a policy that has been reconciled with success and is served under
\* its fingerprint stays served under it through every step that is not its
\* own: as long as its object is not changed and no invocation for it runs,
\* whatever the invocations for other identities do.
C26_ServedPolicyStaysServed ==
    [][\A id \in Ids :
          ( /\ Served(id)
            /\ id \in DOMAIN store'
            /\ store'[id] = store[id]
            /\ rec'[id] = rec[id] )
          => Served(id)']_vars

\* C27: Reconcile never indexes a policy under the empty fingerprint: the
\* empty string is no key of the forward map and no value of the reverse map,
\* and no invocation carries it to the commit step.
C27_NoEmptyFingerprint ==
    /\ EmptyString \notin DOMAIN hashToPolicy
    /\ \A id \in DOMAIN nameToHash : nameToHash[id] # EmptyString
    /\ \A id \in Ids :
          rec[id].pc \in { "index_get", "index_upsert", "status_update" }
          => rec[id].selectorHash # EmptyString

\* C27 happens: a policy with an empty target selector is indexed, under the
\* fingerprint of its subject, and a policy with both forms empty has been
\* turned away.
C27_Witness ==
    /\ \E id \in DOMAIN nameToHash :
          /\ id \in DOMAIN store
          /\ DOMAIN store[id].spec.targetSelector = {}
          /\ nameToHash[id] = ComputeSelectorHash(store[id].spec.subject)
          /\ nameToHash[id] \in DOMAIN hashToPolicy
    /\ last.result = "InvalidSpec"
    /\ last.id \notin DOMAIN nameToHash

\* C28: ComputeSpecHash leaves the spec it is given as it was, the order of
\* the block list included; and so a snapshot of the index that is of the same
\* spec as the object in the store has its block list in the same order.
C28_SpecHashLeavesSpecAlone ==
    /\ (hashCall.fn = "ComputeSpecHash" /\ hashCall.pc = "return")
       => hashCall.after = hashCall.args
    /\ \A h \in DOMAIN hashToPolicy :
          LET snapshot == hashToPolicy[h]
              id == Identity(snapshot)
          IN  ( /\ id \in DOMAIN store
                /\ store[id].spec.targetSelector = snapshot.spec.targetSelector
                /\ store[id].spec.subject = snapshot.spec.subject
                /\ store[id].spec.dryRun = snapshot.spec.dryRun
                /\ IsPermutation(store[id].spec.blockList,
                                 snapshot.spec.blockList) )
              => snapshot.spec.blockList = store[id].spec.blockList

\* C29: the index is never ahead of the store: when no invocation is running
\* for a policy (its last one may have failed to write the status), a
\* snapshot of it in the index carries the selectorHash and the specHash that
\* the status of its object in the store carries.
C29_IndexNotAheadOfStore ==
    \A h \in DOMAIN hashToPolicy :
        LET snapshot == hashToPolicy[h]
            id == Identity(snapshot)
        IN  (id \in DOMAIN store /\ rec[id].pc = "idle")
            => /\ store[id].status.selectorHash = snapshot.status.selectorHash
               /\ store[id].status.specHash = snapshot.status.specHash

=============================================================================
